---- MODULE Spec2Model ----
(***************************************************************************)
(* Model of locar.js DeviceOrientationControls (device-orientation-controls *)
(* .ts) and of the EventEmitter it reports through (event-emitter.ts).      *)
(*                                                                          *)
(* Angles.  The source keeps sensor samples in degrees and everything it    *)
(* derives from them in radians.  Here a radian value is an integer number  *)
(* of 1/Unit degree, so that degToRad(d) = d * Unit, PI = 180 * Unit, and   *)
(* the arithmetic of the smoother stays exact for MaxTicks smoothed ticks.  *)
(* The smoothing factor is the rational smoothingFactor / KDen.             *)
(***************************************************************************)
EXTENDS Integers, Sequences, FiniteSets, Bags, TLC

\* ---------------------------------------------------------------- bounds
MaxTicks == 2        \* update() ticks that run the smoother
MaxInit == 1         \* init() calls made by the host
MaxDirect == 1       \* direct host calls of requestOrientationPermissions()
MaxHandlers == 1     \* handlers registered on the notification channel
MaxRegistrations == 2  \* registrations made on the EventEmitter itself
MaxEmits == 2        \* direct host calls of EventEmitter.emit()

\* ----------------------------------------------------------- arithmetic
KDen == 2
RECURSIVE Pow(_, _)
Pow(b, n) == IF n = 0 THEN 1 ELSE b * Pow(b, n - 1)
Unit == Pow(KDen, MaxTicks)

degToRad(d) == d * Unit
PI == 180 * Unit
TWO_PI == 2 * PI
HALF_PI == PI \div 2

Abs(x) == IF x < 0 THEN -x ELSE x

NULL == [null |-> TRUE]

\* ---------------------------------------------------------------- state
VARIABLES
  window,         \* the platform: DeviceOrientationEvent, requestPermission,
                  \* isSecureContext, screen.orientation.angle
  isIOS,          \* module constant computed from navigator.userAgent
  scope,          \* the fields of the DeviceOrientationControls object
  listeners,      \* event listeners currently registered on window
  quaternion,     \* what update() last handed to the rotation composer
  eventHandlers,  \* EventEmitter.eventHandlers
  emitted,        \* the bag of EventEmitter.emit() calls made so far
  pending,        \* permission requests whose promise has not settled
  requests,       \* number of requestPermission() calls issued
  responses,      \* how each settled request was answered
  dialogs,        \* permission dialogs currently shown
  gestures,       \* button clicks and accepted confirm() dialogs
  inits,          \* init() calls made
  directs,        \* direct host calls of requestOrientationPermissions()
  ticks,          \* update() ticks that ran the smoother
  args,           \* arguments of the host's last call of _getSmoothedAngle or
                  \* of EventEmitter.emit
  result          \* what that call returned, or the handlers it invoked

vars == <<window, isIOS, scope, listeners, quaternion, eventHandlers, emitted,
          pending, requests, responses, dialogs, gestures, inits, directs,
          ticks, args, result>>

\* The state as one value.  Every method and callback of the source is an
\* operator from such a value to the value it leaves behind; threw says that
\* the call is being left by an exception, invoked lists the handlers the
\* call has invoked so far.
World ==
  [window |-> window, isIOS |-> isIOS, scope |-> scope,
   listeners |-> listeners, quaternion |-> quaternion,
   eventHandlers |-> eventHandlers, emitted |-> emitted, pending |-> pending,
   requests |-> requests, responses |-> responses, dialogs |-> dialogs,
   gestures |-> gestures, inits |-> inits, directs |-> directs,
   ticks |-> ticks, threw |-> FALSE, invoked |-> <<>>]

Assign(w) ==
  /\ window' = w.window
  /\ isIOS' = w.isIOS
  /\ scope' = w.scope
  /\ listeners' = w.listeners
  /\ quaternion' = w.quaternion
  /\ eventHandlers' = w.eventHandlers
  /\ emitted' = w.emitted
  /\ pending' = w.pending
  /\ requests' = w.requests
  /\ responses' = w.responses
  /\ dialogs' = w.dialogs
  /\ gestures' = w.gestures
  /\ inits' = w.inits
  /\ directs' = w.directs
  /\ ticks' = w.ticks

Become(w) ==
  /\ Assign(w)
  /\ UNCHANGED <<args, result>>

GRANTED == "deviceorientationgranted"
ERROR == "deviceorientationerror"
EventNames == {GRANTED, ERROR}

NOT_SUPPORTED == "LOCAR_DEVICE_ORIENTATION_NOT_SUPPORTED"
NO_HTTPS == "LOCAR_DEVICE_ORIENTATION_NO_HTTPS"
PERMISSION_DENIED == "LOCAR_DEVICE_ORIENTATION_PERMISSION_DENIED"
PERMISSION_FAILED == "LOCAR_DEVICE_ORIENTATION_PERMISSION_FAILED"
INTERNAL_ERROR == "LOCAR_DEVICE_ORIENTATION_INTERNAL_ERROR"

ORIENTATIONCHANGE == "orientationchange"
DEVICEORIENTATION == "deviceorientation"

\* ------------------------------------------------- sensor and screen callbacks
\* A value that may be null or undefined is the set of its values: {} or {v}.
\* OrDefault(x, d) is JavaScript's x ?? d.
None == {}
Some(v) == {v}
OrDefault(x, d) == IF x = None THEN d ELSE CHOOSE v \in x : TRUE

\* An orientation event carries alpha, beta, gamma and webkitCompassHeading in
\* degrees, each possibly missing.
\* The sensor callback that stores a negative alpha as it came.
onDeviceOrientationChangeEventNoWrap(w, event) ==
  LET alpha == OrDefault(event.alpha, 0)
      beta == OrDefault(event.beta, 0)
      gamma == OrDefault(event.gamma, 0)
      webkitCompassHeading == OrDefault(event.webkitCompassHeading, 0)
  IN IF w.isIOS
     THEN LET ccwNorthHeading == 360 - webkitCompassHeading
          IN [w EXCEPT !.scope.alphaOffset = degToRad(ccwNorthHeading - alpha),
                       !.scope.deviceOrientation =
                          [alpha |-> alpha, beta |-> beta, gamma |-> gamma,
                           webkitCompassHeading |-> Some(webkitCompassHeading)]]
     ELSE [w EXCEPT !.scope.deviceOrientation =
                          [alpha |-> alpha, beta |-> beta, gamma |-> gamma,
                           webkitCompassHeading |-> None]]

onDeviceOrientationChangeEvent(w, event) ==
  LET alpha == OrDefault(event.alpha, 0)
      beta == OrDefault(event.beta, 0)
      gamma == OrDefault(event.gamma, 0)
      webkitCompassHeading == OrDefault(event.webkitCompassHeading, 0)
  IN IF w.isIOS
     THEN LET ccwNorthHeading == 360 - webkitCompassHeading
          IN [w EXCEPT !.scope.alphaOffset = degToRad(ccwNorthHeading - alpha),
                       !.scope.deviceOrientation =
                          [alpha |-> alpha, beta |-> beta, gamma |-> gamma,
                           webkitCompassHeading |-> Some(webkitCompassHeading)]]
     ELSE [w EXCEPT !.scope.deviceOrientation =
                          [alpha |-> IF alpha < 0 THEN alpha + 360 ELSE alpha,
                           beta |-> beta, gamma |-> gamma,
                           webkitCompassHeading |-> None]]

\* The screen callback that also restarts the smoothing.
onScreenOrientationChangeEventResets(w) ==
  LET angle == OrDefault(w.window.angle, 0)
      w1 == [w EXCEPT !.scope.screenOrientation = angle,
                      !.scope.lastOrientation = NULL,
                      !.scope.lastCompassY = None]
  IN IF w.isIOS
     THEN [w1 EXCEPT !.scope.orientationOffset =
                        IF angle = 90 THEN -HALF_PI
                        ELSE IF angle = -90 THEN HALF_PI
                        ELSE 0]
     ELSE w1

onScreenOrientationChangeEvent(w) ==
  LET angle == OrDefault(w.window.angle, 0)
      w1 == [w EXCEPT !.scope.screenOrientation = angle]
  IN IF w.isIOS
     THEN [w1 EXCEPT !.scope.orientationOffset =
                        IF angle = 90 THEN -HALF_PI
                        ELSE IF angle = -90 THEN HALF_PI
                        ELSE 0]
     ELSE w1

\* ------------------------------------------------------- connect / disconnect
\* window.addEventListener ignores a listener that is already registered for
\* the event, so the registered listeners are a set.
addEventListener(w, name) == [w EXCEPT !.listeners = @ \cup {name}]
removeEventListener(w, name) == [w EXCEPT !.listeners = @ \ {name}]

connect(w) ==
  LET w1 == onScreenOrientationChangeEvent(w)
      w2 == addEventListener(w1, ORIENTATIONCHANGE)
      w3 == addEventListener(w2, DEVICEORIENTATION)
  IN [w3 EXCEPT !.scope.enabled = TRUE]

\* disconnect() that leaves the screen listener registered.
disconnectKeepsScreenListener(w) ==
  LET w1 == removeEventListener(w, DEVICEORIENTATION)
  IN [w1 EXCEPT !.scope.enabled = FALSE,
                !.scope.initialOffset = FALSE,
                !.scope.deviceOrientation = NULL]

\* disconnect() that also resets the offsets.
disconnectResetsOffsets(w) ==
  LET w1 == removeEventListener(w, ORIENTATIONCHANGE)
      w2 == removeEventListener(w1, DEVICEORIENTATION)
  IN [w2 EXCEPT !.scope.enabled = FALSE,
                !.scope.initialOffset = FALSE,
                !.scope.deviceOrientation = NULL,
                !.scope.alphaOffset = 0,
                !.scope.orientationOffset = 0]

\* disconnect() that forgets to remove the listeners.
disconnectKeepsListeners(w) ==
  [w EXCEPT !.scope.enabled = FALSE,
            !.scope.initialOffset = FALSE,
            !.scope.deviceOrientation = NULL]

\* disconnect() that also forgets the smoothing state.
disconnectResetsSmoothing(w) ==
  LET w1 == removeEventListener(w, ORIENTATIONCHANGE)
      w2 == removeEventListener(w1, DEVICEORIENTATION)
  IN [w2 EXCEPT !.scope.enabled = FALSE,
                !.scope.initialOffset = FALSE,
                !.scope.deviceOrientation = NULL,
                !.scope.lastOrientation = NULL,
                !.scope.lastCompassY = None]

\* disconnect() that leaves the last sample in place.
disconnectKeepsSample(w) ==
  LET w1 == removeEventListener(w, ORIENTATIONCHANGE)
      w2 == removeEventListener(w1, DEVICEORIENTATION)
  IN [w2 EXCEPT !.scope.enabled = FALSE,
                !.scope.initialOffset = FALSE]

disconnect(w) ==
  LET w1 == removeEventListener(w, ORIENTATIONCHANGE)
      w2 == removeEventListener(w1, DEVICEORIENTATION)
  IN [w2 EXCEPT !.scope.enabled = FALSE,
                !.scope.initialOffset = FALSE,
                !.scope.deviceOrientation = NULL]

\* ------------------------------------------------------------------ accessors
getAlpha(w) ==
  LET device == w.scope.deviceOrientation
  IN IF device # NULL /\ device.alpha # 0
     THEN degToRad(device.alpha) + w.scope.alphaOffset
     ELSE 0

getBeta(w) ==
  LET device == w.scope.deviceOrientation
  IN IF device # NULL /\ device.beta # 0 THEN degToRad(device.beta) ELSE 0

getGamma(w) ==
  LET device == w.scope.deviceOrientation
  IN IF device # NULL /\ device.gamma # 0 THEN degToRad(device.gamma) ELSE 0

\* The heading in degrees.  orientationOffset * (180 / Math.PI) is the offset
\* in degrees; JsRem is JavaScript's %, which keeps the dividend's sign.
JsRem(a, m) == IF a >= 0 THEN a % m ELSE -((-a) % m)

getCorrectedHeading(w) ==
  LET device == w.scope.deviceOrientation
  IN IF device = NULL THEN 0
     ELSE IF w.isIOS
     THEN LET heading == 360 - OrDefault(device.webkitCompassHeading, 0)
          IN IF w.scope.orientationOffset # 0
             THEN JsRem(heading + (w.scope.orientationOffset \div Unit) + 360,
                        360)
             ELSE heading
     ELSE LET heading == IF device.alpha # 0 THEN device.alpha ELSE 0
              reversed == JsRem(360 - heading, 360)
          IN IF reversed < 0 THEN reversed + 360 ELSE reversed

\* ----------------------------------------------------- deadband and smoother
\* The deadband with the comparison turned round.
_calcAngleWithThresholdKeepsFar(w, a, b) ==
  IF Abs(a - b) > w.scope.orientationChangeThreshold THEN b ELSE a

\* The deadband that compares the signed difference.
_calcAngleWithThresholdSigned(w, a, b) ==
  IF a - b < w.scope.orientationChangeThreshold THEN b ELSE a

_calcAngleWithThreshold(w, a, b) ==
  IF Abs(a - b) < w.scope.orientationChangeThreshold THEN b ELSE a

\* _orderAngle() that orders the two angles by value.
_orderAngleByValue(a, b, range) ==
  IF b > a THEN [left |-> a, right |-> b] ELSE [left |-> b, right |-> a]

_orderAngle(a, b, range) ==
  IF (b > a /\ 2 * Abs(b - a) < range) \/ (a > b /\ 2 * Abs(b - a) > range)
  THEN [left |-> a, right |-> b]
  ELSE [left |-> b, right |-> a]

\* k is the numerator of the smoothing factor k / KDen.
\* _getSmoothedAngle() that wraps only a result above range.
_getSmoothedAngleWrapsAbove(a, b, k, range) ==
  LET angles == _orderAngle(a, b, range)
      angleshift == angles.left
      origAnglesRight == angles.right
      right0 == angles.right - angleshift
      right == IF right0 < 0 THEN right0 + range ELSE right0
      newangle0 == IF origAnglesRight = b
                   THEN ((KDen - k) * right + k * 0) \div KDen
                   ELSE (k * right + (KDen - k) * 0) \div KDen
      newangle == newangle0 + angleshift
  IN IF newangle > range THEN newangle - range ELSE newangle

_getSmoothedAngle(a, b, k, range) ==
  LET angles == _orderAngle(a, b, range)
      angleshift == angles.left
      origAnglesRight == angles.right
      right0 == angles.right - angleshift
      right == IF right0 < 0 THEN right0 + range ELSE right0
      newangle0 == IF origAnglesRight = b
                   THEN ((KDen - k) * right + k * 0) \div KDen
                   ELSE (k * right + (KDen - k) * 0) \div KDen
      newangle == newangle0 + angleshift
  IN IF newangle >= range THEN newangle - range ELSE newangle

\* ------------------------------------------------------------------- update
\* setObjectQuaternion(quaternion, alpha, beta, gamma, orient) composes the
\* output rotation from its four angles; on iOS the yaw of the result is then
\* overridden by y.  The rotation is a function of these values, which stand
\* for it here.
setObjectQuaternion(alpha, beta, gamma, orient, y) ==
  [alpha |-> alpha, beta |-> beta, gamma |-> gamma, orient |-> orient, y |-> y]

\* scope.smoothingFactor < 1
\* The test that also lets the factor 1 through.
SmoothingAlways(w) == w.scope.smoothingFactor <= KDen

Smoothing(w) == w.scope.smoothingFactor < KDen

\* update() that records the new alpha but keeps the previous beta and gamma.
updateDeviceAlphaOnly(w) ==
  LET s == w.scope
      device == s.deviceOrientation
      last == s.lastOrientation
      alpha == IF device.alpha # 0
               THEN degToRad(device.alpha) + s.alphaOffset ELSE 0
      beta == IF device.beta # 0 THEN degToRad(device.beta) ELSE 0
      gamma == IF device.gamma # 0 THEN degToRad(device.gamma) ELSE 0
      orient == IF s.screenOrientation # 0
                THEN degToRad(s.screenOrientation) ELSE 0
  IN [w EXCEPT !.scope.lastOrientation =
                  IF last = NULL
                  THEN [alpha |-> alpha, beta |-> beta, gamma |-> gamma]
                  ELSE [last EXCEPT !.alpha = alpha],
               !.quaternion =
                  setObjectQuaternion(alpha, beta, gamma, orient, None)]

\* The body of update() once the controls are enabled and a sample is stored.
updateDevice(w) ==
  LET s == w.scope
      device == s.deviceOrientation
      last == s.lastOrientation
      k == s.smoothingFactor
      alpha0 == IF device.alpha # 0
                THEN degToRad(device.alpha) + s.alphaOffset ELSE 0
      beta0 == IF device.beta # 0 THEN degToRad(device.beta) ELSE 0
      gamma0 == IF device.gamma # 0 THEN degToRad(device.gamma) ELSE 0
      orient == IF s.screenOrientation # 0
                THEN degToRad(s.screenOrientation) ELSE 0
      alpha1 == IF Smoothing(w) /\ last # NULL
                THEN _getSmoothedAngle(alpha0, last.alpha, k, TWO_PI)
                ELSE alpha0
      beta1 == IF Smoothing(w)
               THEN IF last # NULL
                    THEN _getSmoothedAngle(beta0 + PI, last.beta, k, TWO_PI)
                    ELSE beta0 + PI
               ELSE beta0
      gamma1 == IF Smoothing(w)
                THEN IF last # NULL
                     THEN _getSmoothedAngle(gamma0 + HALF_PI, last.gamma, k, PI)
                     ELSE gamma0 + HALF_PI
                ELSE gamma0
      alpha == IF last # NULL
               THEN _calcAngleWithThreshold(w, alpha1, last.alpha) ELSE alpha1
      beta == IF last # NULL
              THEN _calcAngleWithThreshold(w, beta1, last.beta) ELSE beta1
      gamma == IF last # NULL
               THEN _calcAngleWithThreshold(w, gamma1, last.gamma) ELSE gamma1
      betaOut == IF Smoothing(w) THEN beta - PI ELSE beta
      gammaOut == IF Smoothing(w) THEN gamma - HALF_PI ELSE gamma
      compassY0 == degToRad(360 - OrDefault(device.webkitCompassHeading, 0))
      compassY == IF Smoothing(w) /\ s.lastCompassY # None
                  THEN _getSmoothedAngle(compassY0, OrDefault(s.lastCompassY, 0),
                                         k, TWO_PI)
                  ELSE compassY0
      newLast == [alpha |-> alpha, beta |-> beta, gamma |-> gamma]
      smoothed == IF Smoothing(w) /\ last # NULL THEN 1 ELSE 0
  IN IF w.isIOS
     THEN [w EXCEPT !.scope.lastCompassY = Some(compassY),
                    !.scope.lastOrientation = newLast,
                    !.quaternion =
                       setObjectQuaternion(alpha, betaOut, gammaOut, orient,
                                     Some(compassY + s.orientationOffset)),
                    !.ticks = @ + smoothed]
     ELSE [w EXCEPT !.scope.lastOrientation = newLast,
                    !.quaternion =
                       setObjectQuaternion(alpha, betaOut, gammaOut, orient,
                                           None),
                    !.ticks = @ + smoothed]

\* update() that gives up on the permission requests still unanswered.
updateTimesOut(w) ==
  LET w1 == IF w.scope.enabled = FALSE THEN w
            ELSE IF w.scope.deviceOrientation # NULL THEN updateDevice(w)
            ELSE w
  IN [w1 EXCEPT !.pending = {},
                !.emitted = @ (+) SetToBag({[name |-> "deviceorientationerror",
                                             code |-> "timeout", req |-> r] :
                                            r \in w.pending})]

update(w) ==
  IF w.scope.enabled = FALSE THEN w
  ELSE IF w.scope.deviceOrientation # NULL THEN updateDevice(w)
  ELSE w

\* ------------------------------------------------------------- EventEmitter
\* A handler is named by what it does when called: nothing, connect() (the
\* use the source recommends for the granted event), or throw.
NOOP == "noop"
CONNECT == "connect"
THROW == "throw"
Handlers == {NOOP, CONNECT, THROW}

\* The handlers a host registers: connect() on granted, a report on error,
\* and on either a handler that fails.
HandlersFor(eventName) ==
  IF eventName = GRANTED THEN {CONNECT, THROW} ELSE {NOOP, THROW}

\* Handlers that work on the emitter itself: one that detaches itself from the
\* granted event, one that detaches the NOOP handler from it, one that
\* attaches the NOOP handler to it.
OFF_SELF == "offSelf"
OFF_NOOP == "offNoop"
ON_NOOP == "onNoop"
EmitterHandlers == {NOOP, OFF_SELF, OFF_NOOP, ON_NOOP}

on(w, eventName, eventHandler) ==
  [w EXCEPT !.eventHandlers[eventName] = Append(@, eventHandler)]

\* Array.prototype.indexOf, from 1; 0 when absent.
indexOf(handlers, eventHandler) ==
  IF \E i \in DOMAIN handlers : handlers[i] = eventHandler
  THEN CHOOSE i \in DOMAIN handlers :
         /\ handlers[i] = eventHandler
         /\ \A j \in 1..(i - 1) : handlers[j] # eventHandler
  ELSE 0

\* Array.prototype.splice(index, 1)
splice(handlers, index) ==
  SubSeq(handlers, 1, index - 1) \o SubSeq(handlers, index + 1, Len(handlers))

off(w, eventName, eventHandler) ==
  LET index == indexOf(w.eventHandlers[eventName], eventHandler)
  IN IF index > 0
     THEN [w EXCEPT !.eventHandlers[eventName] = splice(@, index)]
     ELSE w

call(w, handler) ==
  LET w1 == [w EXCEPT !.invoked = Append(@, handler)]
  IN CASE handler = CONNECT -> connect(w1)
       [] handler = THROW -> [w1 EXCEPT !.threw = TRUE]
       [] handler = OFF_SELF -> off(w1, GRANTED, OFF_SELF)
       [] handler = OFF_NOOP -> off(w1, GRANTED, NOOP)
       [] handler = ON_NOOP -> on(w1, GRANTED, NOOP)
       [] OTHER -> w1

\* Array.prototype.forEach: the indices below the length the array had when the
\* loop began, each visited if still present; an exception ends the loop.
RECURSIVE forEach(_, _, _, _)
forEach(w, eventName, i, n) ==
  IF i > n \/ w.threw THEN w
  ELSE IF i > Len(w.eventHandlers[eventName])
       THEN forEach(w, eventName, i + 1, n)
       ELSE forEach(call(w, w.eventHandlers[eventName][i]), eventName, i + 1, n)

\* emit(eventName, params): params is the error code ("" for granted); req is
\* the requestOrientationPermissions() call it reports on, 0 for init()'s own.
emit(w, eventName, code, req) ==
  LET w1 == [w EXCEPT !.emitted =
                @ (+) SetToBag({[name |-> eventName, code |-> code,
                                 req |-> req]})]
  IN forEach(w1, eventName, 1, Len(w1.eventHandlers[eventName]))

\* ------------------------------------------------------------- permissions
GrantedResponse == "granted"
DeniedResponse == "denied"
Rejected == "rejected"
Outcomes == {GrantedResponse, DeniedResponse, Rejected}

\* requestOrientationPermissions() up to the point where the promise is
\* pending, or all of it when the permission API is absent.
requestOrientationPermissions(w) ==
  LET r == w.requests + 1
      w1 == [w EXCEPT !.requests = r]
  IN IF w.window.DeviceOrientationEvent /\ w.window.requestPermission
     THEN [w1 EXCEPT !.pending = @ \cup {r}]
     ELSE emit(w1, ERROR, INTERNAL_ERROR, r)

\* The promise of request r settles: the .then() callback, or the .catch()
\* callback, which also runs when the .then() callback throws.
catch(w, r) == emit([w EXCEPT !.threw = FALSE], ERROR, PERMISSION_FAILED, r)

then(w, r, response) ==
  LET w1 == IF response = GrantedResponse
            THEN emit(w, GRANTED, "", r)
            ELSE emit(w, ERROR, PERMISSION_DENIED, r)
  IN IF w1.threw THEN catch(w1, r) ELSE w1

settle(w, r, outcome) ==
  LET w1 == [w EXCEPT !.pending = @ \ {r},
                      !.responses = @ @@ (r :> outcome)]
  IN IF outcome = Rejected THEN catch(w1, r) ELSE then(w1, r, outcome)

createObtainPermissionGestureDialog(w) == [w EXCEPT !.dialogs = @ + 1]

\* The click handler of the dialog's button; the dialog is hidden unless the
\* request threw.
onStartClick(w) ==
  LET w1 == requestOrientationPermissions([w EXCEPT !.gestures = @ + 1])
  IN IF w1.threw THEN w1 ELSE [w1 EXCEPT !.dialogs = @ - 1]

\* accept is the user's answer to window.confirm().
\* obtainPermissionGesture() that requests whatever confirm() returned.
obtainPermissionGestureIgnoresAnswer(w, accept) ==
  IF w.scope.preferConfirmDialog
  THEN requestOrientationPermissions(
         IF accept THEN [w EXCEPT !.gestures = @ + 1] ELSE w)
  ELSE createObtainPermissionGestureDialog(w)

obtainPermissionGesture(w, accept) ==
  IF w.scope.preferConfirmDialog
  THEN IF accept
       THEN requestOrientationPermissions([w EXCEPT !.gestures = @ + 1])
       ELSE w
  ELSE createObtainPermissionGestureDialog(w)

\* init() that checks the secure context before the orientation API.
initChecksContextFirst(w, accept) ==
  IF w.window.isSecureContext = FALSE
  THEN emit(w, ERROR, NO_HTTPS, 0)
  ELSE IF ~w.window.DeviceOrientationEvent
  THEN emit(w, ERROR, NOT_SUPPORTED, 0)
  ELSE LET isiOSWithReq == w.window.requestPermission
       IN IF isiOSWithReq /\ w.scope.enablePermissionDialog
          THEN obtainPermissionGesture(w, accept)
          ELSE emit(w, GRANTED, "", 0)

\* init() that never asks for the gesture.
initSkipsGesture(w, accept) ==
  IF ~w.window.DeviceOrientationEvent
  THEN emit(w, ERROR, NOT_SUPPORTED, 0)
  ELSE IF w.window.isSecureContext = FALSE
  THEN emit(w, ERROR, NO_HTTPS, 0)
  ELSE emit(w, GRANTED, "", 0)

init(w, accept) ==
  IF ~w.window.DeviceOrientationEvent
  THEN emit(w, ERROR, NOT_SUPPORTED, 0)
  ELSE IF w.window.isSecureContext = FALSE
  THEN emit(w, ERROR, NO_HTTPS, 0)
  ELSE LET isiOSWithReq == w.window.requestPermission
       IN IF isiOSWithReq /\ w.scope.enablePermissionDialog
          THEN obtainPermissionGesture(w, accept)
          ELSE emit(w, GRANTED, "", 0)


\* ------------------------------------------------------------------ inputs
\* Orientation events, in degrees (None: the field is missing from the event).
Event(alpha, beta, gamma, webkitCompassHeading) ==
  [alpha |-> alpha, beta |-> beta, gamma |-> gamma,
   webkitCompassHeading |-> webkitCompassHeading]

Events ==
  {Event(None, None, None, None),
   Event(Some(-10), Some(0), Some(0), Some(90)),
   Event(Some(10), Some(0), Some(0), Some(0)),
   Event(Some(350), Some(180), Some(90), Some(90)),
   Event(Some(0), Some(-180), Some(-90), Some(350))}

\* The events of the runs that explore the permission flow.
FewEvents == {Event(Some(10), Some(0), None, Some(90))}

\* The events of the runs that explore the smoother: a full turn apart in
\* alpha, at the ends of the ranges of beta and gamma.
SmootherEvents ==
  {Event(Some(350), Some(180), Some(90), None),
   Event(Some(10), Some(0), Some(0), None)}

\* Arguments of _getSmoothedAngle: angles of [0, range] in radians, the weights
\* k / KDen of (0, 1], the ranges update() uses.
AngleDegrees == {0, 10, 90, 170, 180, 190, 270, 350, 360}
Ranges == {TWO_PI, PI}
AnglesIn(range) == {degToRad(d) : d \in AngleDegrees} \cap 0..range
Weights == 1..KDen

\* The screen angles of the runs that explore the permission flow.
FewScreenAngles == {Some(0), Some(90)}

\* window.screen.orientation?.angle
ScreenAngles == {Some(0), Some(90), Some(-90)}

\* options.smoothingFactor, as numerators over KDen, and
\* options.orientationChangeThreshold, in radians.
SmoothingFactors == {1, KDen}
Thresholds == {0, degToRad(20)}

\* A platform exposes requestPermission only on DeviceOrientationEvent.
Platforms ==
  {p \in [DeviceOrientationEvent : BOOLEAN, requestPermission : BOOLEAN,
          isSecureContext : BOOLEAN, angle : {Some(0)}] :
     p.requestPermission => p.DeviceOrientationEvent}

\* new DeviceOrientationControls(object, options)
constructor(options) ==
  [enabled |-> TRUE,
   deviceOrientation |-> NULL,
   screenOrientation |-> 0,
   alphaOffset |-> 0,
   orientationOffset |-> 0,
   initialOffset |-> None,
   lastCompassY |-> None,
   lastOrientation |-> NULL,
   smoothingFactor |-> options.smoothingFactor,
   enablePermissionDialog |-> options.enablePermissionDialog,
   preferConfirmDialog |-> options.preferConfirmDialog,
   orientationChangeThreshold |-> options.orientationChangeThreshold]

Constructed(platform, ios, options) ==
  /\ window = platform
  /\ isIOS = ios
  /\ scope = constructor(options)
  /\ listeners = {}
  /\ quaternion = NULL
  /\ eventHandlers = [e \in EventNames |-> <<>>]
  /\ emitted = EmptyBag
  /\ pending = {}
  /\ requests = 0
  /\ responses = <<>>
  /\ dialogs = 0
  /\ gestures = 0
  /\ inits = 0
  /\ directs = 0
  /\ ticks = 0
  /\ args = None
  /\ result = None

\* ----------------------------------------------------------------- actions
CallOn ==
  /\ Len(eventHandlers[GRANTED]) + Len(eventHandlers[ERROR]) < MaxHandlers
  /\ \E e \in EventNames : \E h \in HandlersFor(e) : Become(on(World, e, h))

CallInit ==
  /\ inits < MaxInit
  /\ \E accept \in BOOLEAN :
       Become(init([World EXCEPT !.inits = @ + 1], accept))

ClickButton ==
  /\ dialogs > 0
  /\ Become(onStartClick(World))

CallRequestOrientationPermissions ==
  /\ directs < MaxDirect
  /\ Become(requestOrientationPermissions([World EXCEPT !.directs = @ + 1]))

PermissionSettles ==
  \E r \in pending, outcome \in Outcomes : Become(settle(World, r, outcome))

CallConnect == Become(connect(World))

CallDisconnect == Become(disconnect(World))

CallUpdate ==
  /\ update(World).ticks <= MaxTicks
  /\ Become(update(World))

DeviceOrientationEvent(events) ==
  /\ DEVICEORIENTATION \in listeners
  /\ \E event \in events : Become(onDeviceOrientationChangeEvent(World, event))

\* The screen turns; the orientationchange listener runs if registered.
OrientationChangeEvent(angles) ==
  \E angle \in angles \ {window.angle} :
    LET w == [World EXCEPT !.window.angle = angle]
    IN IF ORIENTATIONCHANGE \in listeners
       THEN Become(onScreenOrientationChangeEvent(w))
       ELSE Become(w)

\* The host works on the emitter itself: eventEmitter.on(), off() and emit().
EmitterOn ==
  /\ Len(eventHandlers[GRANTED]) + Len(eventHandlers[ERROR]) < MaxRegistrations
  /\ \E e \in EventNames, h \in EmitterHandlers : Become(on(World, e, h))

EmitterOff ==
  \E e \in EventNames, h \in EmitterHandlers : Become(off(World, e, h))

EmitterEmit ==
  /\ BagCardinality(emitted) < MaxEmits
  /\ \E e \in EventNames :
       LET w == emit(World, e, "", 0)
       IN /\ Assign(w)
          /\ args' = Some([eventName |-> e, eventHandlers |-> eventHandlers])
          /\ result' = Some(w.invoked)

\* The host calls the public method _getSmoothedAngle(a, b, k, range).
CallGetSmoothedAngle(weights) ==
  \E range \in Ranges : \E a \in AnglesIn(range), b \in AnglesIn(range) :
    \E k \in weights :
      /\ args' = Some([a |-> a, b |-> b, k |-> k, range |-> range])
      /\ result' = Some(_getSmoothedAngle(a, b, k, range))
      /\ UNCHANGED <<window, isIOS, scope, listeners, quaternion,
                     eventHandlers, emitted, pending, requests, responses,
                     dialogs, gestures, inits, directs, ticks>>

\* ---------------------------------------------------------- specifications
\* Spec: the permission flow on every platform and with every permission
\* option, under the default smoothing options and a screen that stays put.
Init ==
  \E platform \in Platforms, ios \in BOOLEAN, dialog \in BOOLEAN,
     confirm \in BOOLEAN :
    Constructed(platform, ios,
                [smoothingFactor |-> KDen, orientationChangeThreshold |-> 0,
                 enablePermissionDialog |-> dialog,
                 preferConfirmDialog |-> confirm])

Next ==
  \/ CallOn
  \/ CallInit
  \/ ClickButton
  \/ CallRequestOrientationPermissions
  \/ PermissionSettles
  \/ CallConnect
  \/ CallDisconnect
  \/ CallUpdate
  \/ DeviceOrientationEvent(FewEvents)

Spec == Init /\ [][Next]_vars

\* SpecSensor: a platform without a permission model, every smoothing option
\* and sensor reading.
InitSensor ==
  \E ios \in BOOLEAN, k \in SmoothingFactors, t \in Thresholds :
    Constructed([DeviceOrientationEvent |-> TRUE, requestPermission |-> FALSE,
                 isSecureContext |-> TRUE, angle |-> Some(0)],
                ios,
                [smoothingFactor |-> k, orientationChangeThreshold |-> t,
                 enablePermissionDialog |-> TRUE,
                 preferConfirmDialog |-> FALSE])

NextSensor ==
  \/ CallConnect
  \/ CallDisconnect
  \/ CallUpdate
  \/ DeviceOrientationEvent(Events)
  \/ OrientationChangeEvent(ScreenAngles)

SpecSensor == InitSensor /\ [][NextSensor]_vars

\* SpecPending: an Apple-mobile platform with the permission API and a host
\* that registers no handler, so that requests stay unanswered while every
\* other operation and callback runs.
InitPending ==
  \E confirm \in BOOLEAN :
    Constructed([DeviceOrientationEvent |-> TRUE, requestPermission |-> TRUE,
                 isSecureContext |-> TRUE, angle |-> Some(0)],
                TRUE,
                [smoothingFactor |-> KDen, orientationChangeThreshold |-> 0,
                 enablePermissionDialog |-> TRUE,
                 preferConfirmDialog |-> confirm])

NextPending ==
  \/ CallInit
  \/ ClickButton
  \/ CallRequestOrientationPermissions
  \/ PermissionSettles
  \/ CallConnect
  \/ CallDisconnect
  \/ CallUpdate
  \/ DeviceOrientationEvent(FewEvents)
  \/ OrientationChangeEvent(FewScreenAngles)

SpecPending == InitPending /\ [][NextPending]_vars

\* SpecEmitter: the EventEmitter on its own, with handlers that attach and
\* detach handlers while an event is being emitted.
InitEmitter ==
  Constructed([DeviceOrientationEvent |-> TRUE, requestPermission |-> FALSE,
               isSecureContext |-> TRUE, angle |-> Some(0)],
              FALSE,
              [smoothingFactor |-> KDen, orientationChangeThreshold |-> 0,
               enablePermissionDialog |-> TRUE,
               preferConfirmDialog |-> FALSE])

NextEmitter ==
  \/ EmitterOn
  \/ EmitterOff
  \/ EmitterEmit

SpecEmitter == InitEmitter /\ [][NextEmitter]_vars

\* SpecSmoother: the smoother called by the host on every pair of angles, with
\* every weight and range.
InitSmoother ==
  \E ios \in BOOLEAN, k \in SmoothingFactors :
    Constructed([DeviceOrientationEvent |-> TRUE, requestPermission |-> FALSE,
                 isSecureContext |-> TRUE, angle |-> Some(0)],
                ios,
                [smoothingFactor |-> k, orientationChangeThreshold |-> 0,
                 enablePermissionDialog |-> TRUE,
                 preferConfirmDialog |-> FALSE])

NextSmoother == CallGetSmoothedAngle(Weights)

SpecSmoother == InitSmoother /\ [][NextSmoother]_vars

\* SpecDefault: update() on samples a full turn apart, with and without
\* smoothing, and the smoother called with the default weight 1.
NextDefault ==
  \/ CallConnect
  \/ CallUpdate
  \/ DeviceOrientationEvent(SmootherEvents)
  \/ CallGetSmoothedAngle({KDen})

SpecDefault == InitSmoother /\ [][NextDefault]_vars


\* ------------------------------------------------------------------ claims
Emitted(eventName, code, req) ==
  CopiesIn([name |-> eventName, code |-> code, req |-> req], emitted)

\* What was emitted on behalf of request r (of init() itself for r = 0).
EmittedFor(r) == {e \in BagToSet(emitted) : e.req = r}

Settled == DOMAIN responses

BothListeners == {ORIENTATIONCHANGE, DEVICEORIENTATION}

\* C1: init() on a platform without the orientation API emits exactly one
\* NOT_SUPPORTED error per call; otherwise, on an insecure context, exactly one
\* NO_HTTPS error per call.  In both cases init() emits nothing else (no
\* granted), shows no dialog, takes no gesture and issues no request.
InitOnlyReports(code) ==
  /\ EmittedFor(0) \subseteq {[name |-> ERROR, code |-> code, req |-> 0]}
  /\ Emitted(ERROR, code, 0) = inits
  /\ dialogs = 0
  /\ gestures = 0
  /\ requests = directs

C1_CapabilityChecks ==
  /\ ~window.DeviceOrientationEvent => InitOnlyReports(NOT_SUPPORTED)
  /\ (window.DeviceOrientationEvent /\ ~window.isSecureContext)
       => InitOnlyReports(NO_HTTPS)

C1_Witness ==
  /\ ~window.DeviceOrientationEvent
  /\ ~window.isSecureContext
  /\ inits = 1
  /\ Emitted(ERROR, NOT_SUPPORTED, 0) = 1

\* C2: in a run driven by init(), a permission request that resolves with
\* "granted" leads to exactly one granted event and to no error event,
\* whatever handlers are registered.
C2_GrantedOnceNoError ==
  directs = 0 =>
    \A r \in Settled :
      responses[r] = GrantedResponse =>
        /\ EmittedFor(r) = {[name |-> GRANTED, code |-> "", req |-> r]}
        /\ Emitted(GRANTED, "", r) = 1

\* C3 as claimed: init() itself emits granted only on a platform that exposes
\* no requestPermission function.
C3_GrantedOnlyWithoutPermissionModel ==
  Emitted(GRANTED, "", 0) > 0 => ~window.requestPermission

\* C3, amended: init() itself emits granted only on a supported, secure
\* platform that exposes no requestPermission function or with the option
\* enablePermissionDialog off; any other granted event reports a permission
\* request that returned "granted".
C3_GrantedOnlyWithoutDialog ==
  /\ Emitted(GRANTED, "", 0) > 0 =>
       /\ window.DeviceOrientationEvent
       /\ window.isSecureContext
       /\ ~window.requestPermission \/ ~scope.enablePermissionDialog
  /\ \A e \in BagToSet(emitted) :
       (e.name = GRANTED /\ e.req # 0) =>
         e.req \in Settled /\ responses[e.req] = GrantedResponse

C3_Witness ==
  /\ window.requestPermission
  /\ ~scope.enablePermissionDialog
  /\ Emitted(GRANTED, "", 0) = 1
  /\ requests = 0

\* C4: every permission request comes from a click on the dialog's button, an
\* accepted confirm() dialog or a direct call by the host: init() issues none
\* itself, a declined confirm() issues none, and no outcome re-requests.
C4_RequestNeedsGesture ==
  /\ requests = gestures + directs
  /\ gestures <= inits

C4_Witness ==
  /\ scope.preferConfirmDialog
  /\ inits = 1
  /\ gestures = 1
  /\ requests = 1
  /\ \E r \in Settled : responses[r] = DeniedResponse

\* C5: a permission request that does not end in "granted" is reported by
\* exactly one error event and by nothing else: PERMISSION_DENIED for another
\* response, PERMISSION_FAILED for a rejected promise, INTERNAL_ERROR for a
\* request made without the permission API.
ErrorCodeFor(r) ==
  IF r \notin Settled THEN INTERNAL_ERROR
  ELSE IF responses[r] = Rejected THEN PERMISSION_FAILED
  ELSE PERMISSION_DENIED

C5_OneErrorPerFailedRequest ==
  \A r \in 1..requests :
    (r \notin pending /\ (r \in Settled => responses[r] # GrantedResponse)) =>
      /\ EmittedFor(r) = {[name |-> ERROR, code |-> ErrorCodeFor(r), req |-> r]}
      /\ Emitted(ERROR, ErrorCodeFor(r), r) = 1

\* C6 as claimed: the listeners are registered, and a sample is stored, only
\* once granted has been emitted.
GrantedEmitted == \E e \in BagToSet(emitted) : e.name = GRANTED

C6_SensorsOnlyWhenGranted ==
  (listeners # {} \/ scope.deviceOrientation # NULL) => GrantedEmitted

\* C6, amended: connect() registers the listeners whatever the permission state;
\* the two listeners are registered together and only while enabled is true,
\* and a sample is stored only while they are registered.
C6_SensorsOnlyWhenConnected ==
  /\ listeners \in {{}, BothListeners}
  /\ listeners # {} => scope.enabled
  /\ scope.deviceOrientation # NULL => listeners = BothListeners

C6_Witness ==
  /\ listeners = BothListeners
  /\ scope.deviceOrientation # NULL
  /\ ~GrantedEmitted
  /\ inits = 1

\* C7: disconnect() sets enabled to false, clears the sample, so that the three
\* accessors return 0 while the controls stay disconnected, and keeps
\* alphaOffset and orientationOffset.
C7_DisconnectClearsSample ==
  /\ [](~scope.enabled =>
          /\ scope.deviceOrientation = NULL
          /\ getAlpha(World) = 0
          /\ getBeta(World) = 0
          /\ getGamma(World) = 0)
  /\ [][(scope.enabled /\ ~scope'.enabled) =>
          /\ scope'.alphaOffset = scope.alphaOffset
          /\ scope'.orientationOffset = scope.orientationOffset]_vars

C7_Witness ==
  /\ ~scope.enabled
  /\ scope.alphaOffset # 0
  /\ scope.orientationOffset # 0
  /\ scope.lastOrientation # NULL

\* C8: connect() twice is connect() once, disconnect() twice is disconnect()
\* once, one disconnect() undoes any number of connect() calls, and while the
\* controls stay disconnected no callback runs: nothing of the object changes.
C8_Idempotent ==
  /\ [](/\ connect(connect(World)) = connect(World)
        /\ disconnect(disconnect(World)) = disconnect(World)
        /\ disconnect(connect(connect(World))).listeners = {}
        /\ ~scope.enabled => listeners = {})
  /\ [][(~scope.enabled /\ ~scope'.enabled) =>
          scope' = scope /\ quaternion' = quaternion]_vars

C8_Witness ==
  /\ ~scope.enabled
  /\ listeners = {}
  /\ scope.lastOrientation # NULL
  /\ window.angle # Some(scope.screenOrientation)

\* C9: lastOrientation, lastCompassY and the output rotation change only in a
\* step taken with the controls enabled and a sample stored; and lastOrientation
\* always holds the three angles of one tick, those of the last output.
C9_UpdateAtomic ==
  /\ [](scope.lastOrientation # NULL =>
          /\ quaternion # NULL
          /\ scope.lastOrientation.alpha = quaternion.alpha
          /\ scope.lastOrientation.beta =
               quaternion.beta + (IF Smoothing(World) THEN PI ELSE 0)
          /\ scope.lastOrientation.gamma =
               quaternion.gamma + (IF Smoothing(World) THEN HALF_PI ELSE 0))
  /\ []((scope.lastOrientation = NULL) <=> (quaternion = NULL))
  /\ []((scope.lastCompassY # None) <=>
          (isIOS /\ scope.lastOrientation # NULL))
  /\ [][(\/ scope'.lastOrientation # scope.lastOrientation
         \/ scope'.lastCompassY # scope.lastCompassY
         \/ quaternion' # quaternion) =>
          scope.enabled /\ scope.deviceOrientation # NULL]_vars

C9_Witness ==
  /\ ~scope.enabled
  /\ Smoothing(World)
  /\ ticks > 0
  /\ scope.lastOrientation.beta # PI

\* C10: the heading is in [0, 360).
C10_HeadingInRange == getCorrectedHeading(World) \in 0..359

\* C11: with a sample stored the heading is (360 - compassHeading +
\* orientationOffset in degrees) mod 360 on an Apple-mobile device and
\* (360 - alpha) mod 360 on any other.
C11_HeadingFormula ==
  LET device == scope.deviceOrientation
  IN device # NULL =>
       getCorrectedHeading(World) =
         IF isIOS
         THEN (360 - OrDefault(device.webkitCompassHeading, 0)
                   + (scope.orientationOffset \div Unit)) % 360
         ELSE (360 - device.alpha) % 360

\* C12: with no sample stored the heading is 0, and no sample is stored before
\* the first sensor event nor while the controls stay disconnected.
C12_HeadingZeroWithoutSample ==
  /\ scope.deviceOrientation = NULL => getCorrectedHeading(World) = 0
  /\ ~scope.enabled => getCorrectedHeading(World) = 0
  /\ getCorrectedHeading(disconnect(World)) = 0

C12_Witness ==
  /\ isIOS
  /\ ~scope.enabled
  /\ scope.lastCompassY = Some(degToRad(270))
  /\ scope.orientationOffset = HALF_PI
  /\ getCorrectedHeading(World) = 0

\* C13: on a device that is not Apple-mobile the stored alpha is the event's
\* alpha, wrapped by +360 when negative (-10 is stored as 350), and is never
\* negative; a field missing from the event is stored as 0; alphaOffset stays
\* 0, and getAlpha() is never negative.
C13_AlphaNeverNegative ==
  ~isIOS =>
    /\ scope.alphaOffset = 0
    /\ getAlpha(World) >= 0
    /\ scope.deviceOrientation # NULL => scope.deviceOrientation.alpha >= 0
    /\ \A event \in Events :
         LET w == onDeviceOrientationChangeEvent(World, event)
             stored == w.scope.deviceOrientation
         IN /\ w.threw = FALSE
            /\ stored.alpha \in 0..359
            /\ stored.alpha % 360 = OrDefault(event.alpha, 0) % 360
            /\ event.alpha = Some(-10) => stored.alpha = 350
            /\ event.alpha = None => stored.alpha = 0
            /\ stored.beta = OrDefault(event.beta, 0)
            /\ stored.gamma = OrDefault(event.gamma, 0)
            /\ getAlpha(w) = degToRad(stored.alpha)

C13_Witness ==
  /\ ~isIOS
  /\ scope.deviceOrientation # NULL
  /\ scope.deviceOrientation.alpha = 350
  /\ scope.deviceOrientation.beta = 0
  /\ getAlpha(World) = degToRad(350)

\* C14: with the default smoothing factor 1, update() does not run the
\* smoother and hands the raw angles on: on a device that is not Apple-mobile
\* the sample alpha=10 after alpha=350 gives the alpha of 10 degrees.
C14_UpdatePassesRaw ==
  /\ (scope.smoothingFactor = KDen /\ scope.enabled /\ scope.deviceOrientation # NULL) =>
       LET w == update(World)
       IN /\ w.quaternion.alpha = getAlpha(World)
          /\ w.quaternion.beta = getBeta(World)
          /\ w.quaternion.gamma = getGamma(World)
          /\ w.scope.lastOrientation =
               [alpha |-> getAlpha(World), beta |-> getBeta(World),
                gamma |-> getGamma(World)]
          /\ w.ticks = ticks
  /\ (/\ ~isIOS /\ scope.smoothingFactor = KDen /\ scope.enabled
      /\ quaternion # NULL /\ quaternion.alpha = degToRad(350)
      /\ scope.deviceOrientation # NULL /\ scope.deviceOrientation.alpha = 10) =>
       update(World).quaternion.alpha = degToRad(10)

\* C14 as claimed: moreover _getSmoothedAngle(a, b, 1, range) returns a.
C14_DefaultFactorReturnsNewAngle ==
  /\ C14_UpdatePassesRaw
  /\ \A c \in args : c.k = KDen => result = Some(c.a)

\* C14, amended: moreover _getSmoothedAngle(a, b, 1, range) returns a for a
\* below range, and a - range, that is 0, for a = range.
C14_DefaultFactorReturnsNewAngleInRange ==
  /\ C14_UpdatePassesRaw
  /\ \A c \in args :
       c.k = KDen =>
         result = Some(IF c.a < c.range THEN c.a ELSE c.a - c.range)

C14_Witness ==
  /\ ~isIOS
  /\ scope.smoothingFactor = KDen
  /\ scope.enabled
  /\ quaternion # NULL
  /\ quaternion.alpha = degToRad(350)
  /\ scope.deviceOrientation # NULL
  /\ scope.deviceOrientation.alpha = 10
  /\ \E c \in args : c.a = TWO_PI /\ c.b = degToRad(350) /\ c.k = KDen
  /\ result = Some(0)

\* The length of the shorter arc between x and y on the circle of
\* circumference range.
Dist(x, y, range) ==
  LET d == (x - y) % range IN IF 2 * d <= range THEN d ELSE range - d

\* C16: for a, b in [0, range], weight k / KDen in (0, 1] and range 2 pi or
\* pi, _getSmoothedAngle(a, b, k, range) is in [0, range) and lies on the
\* shorter arc between b and a, at the fraction k / KDen of it from b.
C16_ShorterArc ==
  \A c \in args : \A r \in result :
    /\ r \in 0..(c.range - 1)
    /\ KDen * Dist(c.b, r, c.range) = c.k * Dist(c.b, c.a, c.range)
    /\ KDen * Dist(r, c.a, c.range) = (KDen - c.k) * Dist(c.b, c.a, c.range)

C16_Witness ==
  \E c \in args : \E r \in result :
    /\ c.a = degToRad(10)
    /\ c.b = degToRad(350)
    /\ c.range = TWO_PI
    /\ c.k < KDen
    /\ r > degToRad(350) \/ r < degToRad(10)

\* C17 as claimed: for a = b in [0, range] the smoother returns that angle.
C17_SameAngleExactly ==
  \A c \in args : c.a = c.b => result = Some(c.a)

\* C17, amended: for a = b the smoother returns that angle when it is below
\* range, and 0 when it is range.
C17_SameAngleInRange ==
  \A c \in args :
    c.a = c.b => result = Some(IF c.a < c.range THEN c.a ELSE 0)

C17_Witness ==
  \E c \in args :
    /\ c.a = PI
    /\ c.b = PI
    /\ c.range = PI
    /\ c.k < KDen
    /\ result = Some(0)

\* C15: a permission request stays pending until the platform answers it:
\* nothing is emitted for a request while it is pending, a request leaves
\* pending only by being answered, and update(), connect(), disconnect() and
\* the sensor and screen callbacks emit nothing; only init(), a gesture, a
\* direct request or an answer does.
C15_PendingUntilAnswered ==
  /\ [](\A r \in pending : EmittedFor(r) = {})
  /\ [][\A r \in pending :
          r \in pending' \/ (r \notin DOMAIN responses /\ r \in DOMAIN responses')]_vars
  /\ [][emitted' # emitted =>
          \/ inits' # inits
          \/ gestures' # gestures
          \/ directs' # directs
          \/ responses' # responses]_vars

C15_Witness ==
  /\ pending # {}
  /\ emitted = EmptyBag
  /\ ~scope.enabled
  /\ scope.lastOrientation # NULL
  /\ scope.screenOrientation = 90
  /\ window.angle = Some(0)

\* C18: update() passes each axis, after smoothing, through the deadband: with
\* a previous orientation the axis keeps its previous angle when the new one
\* differs from it by less than the threshold and takes the new one otherwise
\* (always, with threshold 0); without a previous orientation the new angles
\* are taken as they are.
C18_Candidate ==
  LET last == scope.lastOrientation
      k == scope.smoothingFactor
  IN IF k < KDen
     THEN IF last # NULL
          THEN [alpha |-> _getSmoothedAngle(getAlpha(World), last.alpha, k,
                                            TWO_PI),
                beta |-> _getSmoothedAngle(getBeta(World) + PI, last.beta, k,
                                           TWO_PI),
                gamma |-> _getSmoothedAngle(getGamma(World) + HALF_PI,
                                            last.gamma, k, PI)]
          ELSE [alpha |-> getAlpha(World), beta |-> getBeta(World) + PI,
                gamma |-> getGamma(World) + HALF_PI]
     ELSE [alpha |-> getAlpha(World), beta |-> getBeta(World),
           gamma |-> getGamma(World)]

C18_Filter(a, b) ==
  IF Abs(a - b) < scope.orientationChangeThreshold THEN b ELSE a

C18_Deadband ==
  (scope.enabled /\ scope.deviceOrientation # NULL) =>
    LET last == scope.lastOrientation
        new == update(World).scope.lastOrientation
    IN /\ last = NULL => new = C18_Candidate
       /\ last # NULL =>
            /\ new.alpha = C18_Filter(C18_Candidate.alpha, last.alpha)
            /\ new.beta = C18_Filter(C18_Candidate.beta, last.beta)
            /\ new.gamma = C18_Filter(C18_Candidate.gamma, last.gamma)
       /\ scope.orientationChangeThreshold = 0 => new = C18_Candidate

C18_Witness ==
  /\ ~isIOS
  /\ scope.smoothingFactor = KDen
  /\ scope.orientationChangeThreshold = degToRad(20)
  /\ scope.deviceOrientation # NULL
  /\ scope.deviceOrientation.alpha = 0
  /\ scope.lastOrientation # NULL
  /\ scope.lastOrientation.alpha = degToRad(10)
  /\ scope.lastOrientation.beta = degToRad(-180)

\* C19: on an Apple-mobile device with a sample stored, alphaOffset is
\* radians(360 - compassHeading) - radians(alpha), and the corrected alpha,
\* from getAlpha() and in update(), is radians(360 - compassHeading).
C19_AlphaTracksNorth ==
  LET device == scope.deviceOrientation
      north == degToRad(360 - OrDefault(device.webkitCompassHeading, 0))
  IN (isIOS /\ device # NULL) =>
       /\ scope.alphaOffset = north - degToRad(device.alpha)
       /\ getAlpha(World) = north
       /\ (/\ scope.enabled
           /\ scope.smoothingFactor = KDen
           /\ scope.orientationChangeThreshold = 0) =>
            update(World).quaternion.alpha = north

\* C20: update() leaves the sample, the screen angle and the two offsets as
\* they are, the sensor and screen callbacks leave lastOrientation,
\* lastCompassY and the output rotation as they are, and no step of the
\* controls changes fields of both groups.
C20_CallbackFields(w) ==
  <<w.scope.deviceOrientation, w.scope.screenOrientation, w.scope.alphaOffset,
    w.scope.orientationOffset>>

C20_UpdateFields(w) ==
  <<w.scope.lastOrientation, w.scope.lastCompassY, w.quaternion>>

C20_DisjointWriters ==
  /\ [](/\ C20_CallbackFields(update(World)) = C20_CallbackFields(World)
        /\ C20_UpdateFields(onScreenOrientationChangeEvent(World))
             = C20_UpdateFields(World)
        /\ \A event \in Events :
             C20_UpdateFields(onDeviceOrientationChangeEvent(World, event))
               = C20_UpdateFields(World))
  /\ [][\/ C20_CallbackFields(World)' = C20_CallbackFields(World)
        \/ C20_UpdateFields(World)' = C20_UpdateFields(World)]_vars

C20_Witness ==
  /\ isIOS
  /\ scope.enabled
  /\ scope.deviceOrientation # NULL
  /\ scope.screenOrientation = 90
  /\ scope.orientationOffset = -HALF_PI
  /\ scope.alphaOffset # 0
  /\ scope.lastCompassY # None
  /\ ticks > 0

\* C21: update() is steady on a constant sample: once a tick has handed the
\* sample's own alpha, beta and gamma to the composer, as the first tick on a
\* sample does, the next tick on the same sample, screen angle and offsets
\* hands over the same three angles.
C21_SteadyState ==
  (/\ scope.enabled
   /\ scope.deviceOrientation # NULL
   /\ quaternion # NULL
   /\ quaternion.alpha = getAlpha(World)
   /\ quaternion.beta = getBeta(World)
   /\ quaternion.gamma = getGamma(World)) =>
    LET next == update(World).quaternion
    IN /\ next.alpha = quaternion.alpha
       /\ next.beta = quaternion.beta
       /\ next.gamma = quaternion.gamma

\* C22: with smoothing off and a threshold t > 0, after a tick of update() on a
\* stored sample each axis of lastOrientation, which is the angle handed to
\* the composer, is the raw corrected angle of the axis or less than t from it.
C22_Near(x, raw) ==
  x = raw \/ Abs(x - raw) < scope.orientationChangeThreshold

C22_LagBelowThreshold ==
  (/\ scope.smoothingFactor = KDen
   /\ scope.orientationChangeThreshold > 0
   /\ scope.enabled
   /\ scope.deviceOrientation # NULL) =>
    LET w == update(World)
        new == w.scope.lastOrientation
    IN /\ C22_Near(new.alpha, getAlpha(World))
       /\ C22_Near(new.beta, getBeta(World))
       /\ C22_Near(new.gamma, getGamma(World))
       /\ w.quaternion.alpha = new.alpha
       /\ w.quaternion.beta = new.beta
       /\ w.quaternion.gamma = new.gamma

C22_Witness ==
  /\ ~isIOS
  /\ scope.smoothingFactor = KDen
  /\ scope.orientationChangeThreshold > 0
  /\ scope.enabled
  /\ scope.deviceOrientation # NULL
  /\ scope.deviceOrientation.alpha = 0
  /\ scope.lastOrientation # NULL
  /\ scope.lastOrientation.alpha = degToRad(10)
  /\ scope.lastOrientation.gamma = degToRad(-90)
  /\ quaternion.alpha = degToRad(10)

\* C24: disconnect() and connect() leave lastOrientation, lastCompassY and the
\* output rotation as they are, so that the tick after a reconnection treats
\* the next sample as it would have without the disconnection.
C24_SmoothingState(w) ==
  <<w.scope.lastOrientation, w.scope.lastCompassY, w.quaternion>>

C24_ReconnectKeepsSmoothing ==
  /\ [](/\ C24_SmoothingState(disconnect(World)) = C24_SmoothingState(World)
        /\ C24_SmoothingState(connect(World)) = C24_SmoothingState(World)
        /\ \A event \in Events :
             C24_SmoothingState(update(onDeviceOrientationChangeEvent(
                                         connect(disconnect(World)), event)))
               = C24_SmoothingState(update(onDeviceOrientationChangeEvent(
                                             connect(World), event))))
  /\ [][scope'.enabled # scope.enabled =>
          C24_SmoothingState(World)' = C24_SmoothingState(World)]_vars

C24_Witness ==
  /\ isIOS
  /\ ~scope.enabled
  /\ scope.smoothingFactor < KDen
  /\ scope.orientationChangeThreshold > 0
  /\ scope.lastOrientation # NULL
  /\ scope.lastCompassY # None
  /\ scope.lastCompassY # Some(TWO_PI)

\* C23: disconnect() leaves a pending permission request pending and emits
\* nothing; when the request of disconnected controls is answered, exactly one
\* notification is emitted for it, and unless a registered handler calls
\* connect() the controls stay disabled and without listeners.
NotificationsFor(bag, r) ==
  CopiesIn([name |-> GRANTED, code |-> "", req |-> r], bag)
    + CopiesIn([name |-> ERROR, code |-> PERMISSION_DENIED, req |-> r], bag)
    + CopiesIn([name |-> ERROR, code |-> PERMISSION_FAILED, req |-> r], bag)
    + CopiesIn([name |-> ERROR, code |-> INTERNAL_ERROR, req |-> r], bag)

C23_DisconnectKeepsRequest ==
  /\ [](/\ disconnect(World).pending = pending
        /\ disconnect(World).emitted = emitted)
  /\ [][\A r \in pending :
          (~scope.enabled /\ r \notin pending') =>
            /\ NotificationsFor(emitted', r) = 1
            /\ (\A i \in DOMAIN eventHandlers[GRANTED] :
                  eventHandlers[GRANTED][i] # CONNECT) =>
                 (~scope'.enabled /\ listeners' = {})]_vars

\* C25: emit(name) invokes the handlers registered for name when it starts,
\* each once and in registration order, and no other handler, also when
\* handlers call off() or on() meanwhile; off() removes the first registration
\* of the handler under the name and nothing else, and nothing when there is
\* none.
C25_EmitInvokesRegistered ==
  /\ \A c \in args : result = Some(c.eventHandlers[c.eventName])
  /\ \A e \in EventNames, h \in EmitterHandlers :
       LET before == eventHandlers[e]
           after == off(World, e, h).eventHandlers
       IN /\ \A other \in EventNames \ {e} : after[other] = eventHandlers[other]
          /\ (\A i \in DOMAIN before : before[i] # h) => after[e] = before
          /\ (\E i \in DOMAIN before : before[i] = h) =>
               \E i \in DOMAIN before :
                 /\ before[i] = h
                 /\ after[e] = SubSeq(before, 1, i - 1)
                                 \o SubSeq(before, i + 1, Len(before))


====
